---- MODULE Spec2Model ----
(***************************************************************************)
(* A model of the QPSO swarm and the hybrid training loop of               *)
(* vqrl_qpso_smartgrid.py: SmartGridEnv (the generator table and the       *)
(* calls into the power-flow solver), QPSO.__init__, QPSO.update and       *)
(* main().                                                                 *)
(*                                                                         *)
(* Real numbers are fixed-point integers in units of 1/Den, with the three *)
(* non-finite floating-point values Inf, NegInf and NaN kept apart and     *)
(* propagated as IEEE arithmetic propagates them.  The power-flow solver   *)
(* and the quantum circuit are external: their results are inputs, drawn   *)
(* from small sets.  The generator table is taken to have the GenCount     *)
(* rows the source slices its action to.  The model follows one pass of    *)
(* the loop body of main(), from the state main() enters its loop in: a    *)
(* later pass differs only in the dispatch and the weights it starts from. *)
(***************************************************************************)
EXTENDS Integers, Sequences, FiniteSets

\* ---------------------------------------------------------------- bounds
\* particles of a swarm (20 in main)
NParticles == 2
\* rows of the generator table, the length apply_action slices to (54)
GenCount == 2
\* qubits, the length of the circuit's output (12)
NQubits == 2
\* fixed-point resolution: the integer x stands for the real x / Den
Den == 4

\* ------------------------------------------------- floating-point values
Inf == 1000000
NaN == 7000000
NegInf == -Inf

IsFinite(x) == x \notin {Inf, NegInf, NaN}

Trunc(n, d) == IF n >= 0 THEN n \div d ELSE -((-n) \div d)

FNeg(a) == IF a = NaN THEN NaN ELSE -a

FAbs(a) == IF a = NaN THEN NaN ELSE IF a < 0 THEN -a ELSE a

FAdd(a, b) ==
    IF a = NaN \/ b = NaN THEN NaN
    ELSE IF ~IsFinite(a) /\ ~IsFinite(b) THEN (IF a = b THEN a ELSE NaN)
    ELSE IF ~IsFinite(a) THEN a
    ELSE IF ~IsFinite(b) THEN b
    ELSE a + b

FSub(a, b) == FAdd(a, FNeg(b))

FSign(a) == IF a > 0 THEN 1 ELSE IF a < 0 THEN -1 ELSE 0

\* a * b for two fixed-point values
FMul(a, b) ==
    IF a = NaN \/ b = NaN THEN NaN
    ELSE IF ~IsFinite(a) \/ ~IsFinite(b)
         THEN (IF a = 0 \/ b = 0 THEN NaN
               ELSE IF FSign(a) * FSign(b) > 0 THEN Inf ELSE NegInf)
    ELSE Trunc(a * b, Den)

\* a * (num / den) for a fixed-point a and an exact ratio num / den
FMulRat(a, num, den) ==
    IF a = NaN THEN NaN
    ELSE IF ~IsFinite(a)
         THEN (IF num = 0 THEN NaN ELSE IF num > 0 THEN a ELSE -a)
    ELSE Trunc(a * num, den)

\* a < b as floats compare: every comparison with NaN is false
FLess(a, b) == a # NaN /\ b # NaN /\ a < b

\* np.log(1 / u) of a sample u in [0, 1): 1/0 is inf and log(inf) is inf;
\* elsewhere the first-order rational approximation 2 (x - 1) / (x + 1) of
\* ln x at x = Den / u, in units of 1/Den
LogInv(u) == IF u = 0 THEN Inf ELSE (2 * Den * (Den - u)) \div (Den + u)

\* ------------------------------------------------------------ index sets
Particles == 0 .. NParticles - 1
Dims(D) == 0 .. D - 1
Gens == 0 .. GenCount - 1
Qubits == 0 .. NQubits - 1

RECURSIVE SumTo(_, _)
\* f[0] + ... + f[n-1] for integers
SumTo(f, n) == IF n = 0 THEN 0 ELSE SumTo(f, n - 1) + f[n - 1]

\* ------------------------------------------------- external collaborators
\* what a converged power flow leaves in res_line / res_bus, as get_reward
\* reads it: the summed overload and the summed voltage deviation
PowerFlowResults ==
    { [congestion |-> 0, v_dev |-> 1], [congestion |-> 5, v_dev |-> 1] }

\* the expectation values the circuit returns, each in [-1, 1]
SignalGrid == {-1, 0, 1}

\* the samples np.random.random can return, in units of 1/Den: [0, 1)
UnitGrid == {0, Den \div 2}
\* the samples compared with 0.5 for the sign
SignGrid == {Den \div 4, (3 * Den) \div 4}
\* the initial coordinates np.random.uniform(-1, 1) can return: [-1, 1)
InitGrid == {-Den, Den \div 2}

\* the random vectors of a swarm of dimension D the model draws: one sample
\* for coordinate 0 and one for every other coordinate
RandomVectors(D, grid) ==
    { [d \in Dims(D) |-> IF d = 0 THEN a ELSE b] : a \in grid, b \in grid }

\* the same sample in every coordinate
ConstantVectors(D, grid) == { [d \in Dims(D) |-> g] : g \in grid }

\* the circuit outputs the model draws
Signals == RandomVectors(NQubits, SignalGrid)

\* the initial positions of a swarm of dimension D: two samples laid out
\* alternately over particles and coordinates
InitSwarms(D) ==
    { [k \in Particles |-> [d \in Dims(D) |->
          IF (k + d) % 2 = 0 THEN a ELSE b]] : a \in InitGrid, b \in InitGrid }

\* ------------------------------------------------------------ SmartGridEnv
\* a slip: the adjustment is assigned, not added
apply_action_assign(gen, gen_adjustments) ==
    [g \in Gens |-> IF g \in DOMAIN gen_adjustments
                    THEN gen_adjustments[g]
                    ELSE gen[g]]

\* apply_action's loop: gen.at[i, 'p_mw'] += adj over gen_adjustments[:54]
apply_action(gen, gen_adjustments) ==
    [g \in Gens |-> IF g \in DOMAIN gen_adjustments
                    THEN FAdd(gen[g], gen_adjustments[g])
                    ELSE gen[g]]

\* get_reward, in tenths: -(0.7 * congestion + 0.3 * v_dev)
get_reward(res) == -(7 * res.congestion + 3 * res.v_dev)

\* ------------------------------------------------------------------- QPSO
\* np.mean(self.pbest, axis=0)
RECURSIVE ColumnSum(_, _, _)
ColumnSum(m, d, n) ==
    IF n = 0 THEN 0 ELSE FAdd(ColumnSum(m, d, n - 1), m[n - 1][d])

Mbest(pb, D) == [d \in Dims(D) |-> FMulRat(ColumnSum(pb, d, NParticles), 1, NParticles)]

\* p = phi * self.pbest[i] + (1 - phi) * self.gbest
LocalAttractor(ph, pb, gb, D) ==
    [d \in Dims(D) |-> FAdd(FMul(ph[d], pb[d]), FMul(Den - ph[d], gb[d]))]

\* np.where(r > 0.5, 1, -1)
SignOf(r) == IF 2 * r > Den THEN 1 ELSE -1

\* p + sign * self.beta * np.abs(mbest - self.particles[i]) * np.log(1/u)
NewPosition(pp, sg, b, mb, x, uu, D) ==
    [d \in Dims(D) |->
        FAdd(pp[d], FMul(FMulRat(FAbs(FSub(mb[d], x[d])), sg[d] * b.num, b.den),
                         LogInv(uu[d])))]

\* a slip: the best is overwritten without the comparison
ImprovesAlways(fit, best) == TRUE

\* if fit < self.gbest_fit
Improves(fit, best) == FLess(fit, best)

\* a slip: the best position is copied from the first particle
BestPositionFirst(parts, k) == parts[0]

\* self.gbest = self.particles[i].copy()
BestPosition(parts, k) == parts[k]

\* ------------------------------------------------------------------- main
\* a slip: 0.5 + np.mean(quantum_outputs)
AdaptiveBetaUnscaled(q) ==
    [num |-> NQubits + 2 * SumTo(q, NQubits), den |-> 2 * NQubits]

\* adaptive_beta = 0.5 + 0.5 * np.mean(quantum_outputs), as an exact ratio
AdaptiveBeta(q) ==
    [num |-> NQubits + SumTo(q, NQubits), den |-> 2 * NQubits]

\* weights = weights + 0.01 * final_reward, in thousandths
UpdateWeights(w, reward) == [q \in Qubits |-> w[q] + reward]

\* ------------------------------------------------------------------ state
VARIABLES
    pc,               \* the statement main() is at
    raised_in,        \* the call a LoadflowNotConverged escaped from, or "none"
    env_gen,          \* env.net.gen.p_mw, as the offset from the case's dispatch
    weights,          \* the circuit weights, as the offset from their first value
    quantum_outputs,  \* vqc_policy's result
    adaptive_beta,    \* the coefficient main() computes
    n_dimensions,     \* QPSO.n_dimensions
    beta,             \* QPSO.beta
    particles,        \* QPSO.particles
    pbest,            \* QPSO.pbest
    gbest,            \* QPSO.gbest
    gbest_fit,        \* QPSO.gbest_fit
    mbest,            \* update(): mbest
    i,                \* update(): the loop variable
    u,                \* update(): the last u
    p,                \* update(): the last local attractor
    best_rescheduling,\* what update() returned
    final_reward,     \* the reward main() read after its commit
    baseline,         \* history: env_gen when update() was entered
    evals             \* history: the evaluations of this update() call, in order

vars == << pc, raised_in, env_gen, weights, quantum_outputs,
           adaptive_beta, n_dimensions, beta, particles, pbest, gbest,
           gbest_fit, mbest, i, u, p, best_rescheduling, final_reward,
           baseline, evals >>

envVars == << env_gen >>
loopVars == << weights, quantum_outputs, adaptive_beta, final_reward >>
swarmVars == << n_dimensions, beta, particles, pbest, gbest, gbest_fit >>
updateVars == << mbest, i, u, p, baseline, evals >>

NoVector == << >>
NoBeta == [num |-> 0, den |-> 1]

\* the state main() starts from, for a swarm dimension D
InitWith(D) ==
    /\ pc = "get_state"
    /\ raised_in = "none"
    /\ env_gen = [g \in Gens |-> 0]
    /\ weights = [q \in Qubits |-> 0]
    /\ quantum_outputs = NoVector
    /\ adaptive_beta = NoBeta
    /\ n_dimensions = D
    /\ beta = NoBeta
    /\ particles = NoVector
    /\ pbest = NoVector
    /\ gbest = NoVector
    /\ gbest_fit = Inf
    /\ mbest = NoVector
    /\ i = 0
    /\ u = NoVector
    /\ p = NoVector
    /\ best_rescheduling = NoVector
    /\ final_reward = 0
    /\ baseline = NoVector
    /\ evals = << >>

\* main() as written: n_dimensions = 54, the length apply_action slices to
Init == InitWith(GenCount)

\* pp.runpp raises LoadflowNotConverged out of the call named site; nothing
\* in the source catches it, so main() ends at the statement it is at
Raise(site) ==
    /\ raised_in' = site
    /\ UNCHANGED pc

\* no exception has ended main()
Running == raised_in = "none"

\* state = env.get_state()
GetState ==
    /\ pc = "get_state"
    /\ Running
    /\ \/ /\ pc' = "vqc_policy"
          /\ UNCHANGED raised_in
       \/ Raise("get_state")
    /\ UNCHANGED << envVars, loopVars, swarmVars, updateVars, best_rescheduling >>

\* quantum_outputs = vqc_policy(weights, state); adaptive_beta = ...
VqcPolicy ==
    /\ pc = "vqc_policy"
    /\ Running
    /\ \E q \in Signals :
          /\ quantum_outputs' = q
          /\ adaptive_beta' = AdaptiveBeta(q)
    /\ pc' = "QPSO"
    /\ UNCHANGED << raised_in, envVars, weights, final_reward, swarmVars,
                    updateVars, best_rescheduling >>

\* optimizer = QPSO(n_particles, n_dimensions, beta=adaptive_beta)
QPSOInit ==
    /\ pc = "QPSO"
    /\ Running
    /\ \E s \in InitSwarms(n_dimensions) :
          /\ particles' = s
          /\ pbest' = s
          /\ gbest' = s[0]
    /\ gbest_fit' = Inf
    /\ beta' = adaptive_beta
    /\ pc' = "update"
    /\ UNCHANGED << raised_in, envVars, loopVars, n_dimensions, updateVars,
                    best_rescheduling >>

\* update(): mbest = np.mean(self.pbest, axis=0)
UpdateEnter ==
    /\ pc = "update"
    /\ Running
    /\ mbest' = Mbest(pbest, n_dimensions)
    /\ i' = 0
    /\ baseline' = env_gen
    /\ evals' = << >>
    /\ pc' = "particle"
    /\ UNCHANGED << raised_in, envVars, loopVars, swarmVars, u, p,
                    best_rescheduling >>

\* update(): one pass of the loop over the particles
UpdateParticle ==
    /\ pc = "particle"
    /\ Running
    /\ i < NParticles
    /\ \E uu \in RandomVectors(n_dimensions, UnitGrid),
          ph \in ConstantVectors(n_dimensions, UnitGrid),
          r \in ConstantVectors(n_dimensions, SignGrid) :
          LET pp == LocalAttractor(ph, pbest[i], gbest, n_dimensions)
              sg == [d \in Dims(n_dimensions) |-> SignOf(r[d])]
              x == NewPosition(pp, sg, beta, mbest, particles[i], uu,
                               n_dimensions)
              moved == [particles EXCEPT ![i] = x]
          IN  /\ u' = uu
              /\ p' = pp
              /\ particles' = moved
              /\ env_gen' = apply_action(env_gen, x)
              /\ \/ \E res \in PowerFlowResults :
                       LET fit == -get_reward(res)
                       IN  /\ evals' = Append(evals,
                                  [particle |-> i, position |-> x, fit |-> fit,
                                   gen |-> env_gen'])
                           /\ IF Improves(fit, gbest_fit)
                              THEN /\ gbest' = BestPosition(moved, i)
                                   /\ gbest_fit' = fit
                              ELSE UNCHANGED << gbest, gbest_fit >>
                           /\ i' = i + 1
                           /\ UNCHANGED << pc, raised_in >>
                 \/ /\ \E site \in {"apply_action", "get_reward"} : Raise(site)
                    /\ UNCHANGED << evals, gbest, gbest_fit, i >>
    /\ UNCHANGED << loopVars, n_dimensions, beta, pbest, mbest, baseline,
                    best_rescheduling >>

\* update(): return self.gbest; the locals of the call are gone
UpdateReturn ==
    /\ pc = "particle"
    /\ Running
    /\ i = NParticles
    /\ best_rescheduling' = gbest
    /\ mbest' = NoVector
    /\ i' = 0
    /\ u' = NoVector
    /\ p' = NoVector
    /\ pc' = "commit"
    /\ UNCHANGED << raised_in, envVars, loopVars, swarmVars, baseline, evals >>

\* env.apply_action(best_rescheduling)
Commit ==
    /\ pc = "commit"
    /\ Running
    /\ env_gen' = apply_action(env_gen, best_rescheduling)
    /\ \/ /\ pc' = "get_reward"
          /\ UNCHANGED raised_in
       \/ Raise("apply_action")
    /\ UNCHANGED << loopVars, swarmVars, updateVars, best_rescheduling >>

\* final_reward = env.get_reward(); weights = weights + 0.01 * final_reward
Learn ==
    /\ pc = "get_reward"
    /\ Running
    /\ \/ \E res \in PowerFlowResults :
             /\ final_reward' = get_reward(res)
             /\ weights' = UpdateWeights(weights, final_reward')
             /\ pc' = "next_epoch"
             /\ UNCHANGED raised_in
       \/ /\ Raise("get_reward")
          /\ UNCHANGED << final_reward, weights >>
    /\ UNCHANGED << envVars, quantum_outputs, adaptive_beta, swarmVars,
                    updateVars, best_rescheduling >>

Next ==
    \/ GetState
    \/ VqcPolicy
    \/ QPSOInit
    \/ UpdateEnter
    \/ UpdateParticle
    \/ UpdateReturn
    \/ Commit
    \/ Learn

Spec == Init /\ [][Next]_vars

\* the QPSO class built with any n_dimensions, not only main()'s
InitAnyDimension == \E D \in 1 .. GenCount + 1 : InitWith(D)

SpecAnyDimension == InitAnyDimension /\ [][Next]_vars

\* ------------------------------------------------------- for the properties
\* update() has returned to main()
Returned == pc \in {"commit", "get_reward", "next_epoch"}

\* the evaluations of this call made by particle k
EvalsOf(k) == { j \in 1 .. Len(evals) : evals[j].particle = k }

Least(S) == CHOOSE x \in S : \A y \in S : x <= y

\* the lowest fitness evaluated in this call, +infinity when there is none
LowestFit ==
    IF evals = << >> THEN Inf
    ELSE Least({ evals[j].fit : j \in 1 .. Len(evals) })

\* the fitness the swarm has for pbest[k]: the lowest it evaluated particle k
\* at that position, +infinity while the position was never evaluated
PersonalBestFitness(k) ==
    LET at == { j \in EvalsOf(k) : evals[j].position = pbest[k] }
    IN  IF at = {} THEN Inf ELSE Least({ evals[j].fit : j \in at })

\* the dispatch left by the first k evaluations of this call: the one
\* update() was entered with when k = 0
DispatchAfter(k) == IF k = 0 THEN baseline ELSE evals[k].gen

\* a dispatch with the first coordinates of a vector added to it, generator
\* by generator
Plus(dispatch, vector) ==
    [g \in Gens |-> IF g < n_dimensions
                    THEN FAdd(dispatch[g], vector[g])
                    ELSE dispatch[g]]

\* every position evaluated in this call is finite in every coordinate
AllFinite ==
    \A j \in 1 .. Len(evals) :
        \A d \in Dims(n_dimensions) : IsFinite(evals[j].position[d])

\* ------------------------------------------------------------------ claims
\* C1: inside a call of update(), and so across the whole call, gbest_fit
\* never increases: every step leaves it equal or lower.
C1_GbestFitNeverIncreases ==
    [][(pc \in {"update", "particle"}) => (gbest_fit' <= gbest_fit)]_vars

\* C1 witness: the call has evaluated every particle, the best fitness is
\* finite, and a later particle with a worse fitness left it in place.
C1_Witness ==
    /\ pc = "particle" /\ i = NParticles
    /\ gbest_fit = evals[1].fit
    /\ \E j \in 2 .. Len(evals) : evals[j].fit > gbest_fit

\* C2 (as claimed): once update() has returned, gbest_fit equals the minimum
\* over the particles of the fitness of their personal best.  Stated for the
\* calls whose positions all stayed finite, so that a violation owes nothing
\* to a sample u = 0.
C2_GbestFitIsMinPersonalBestFit ==
    (Returned /\ AllFinite) =>
        gbest_fit = Least({ PersonalBestFitness(k) : k \in Particles })

\* C3 (as claimed): a failure of the evaluator while update() evaluates a
\* particle is not propagated out of update().
C3_EvaluatorFailureNotPropagated ==
    ~(pc = "particle" /\ raised_in # "none")

\* C4 (as claimed): every sample u_d fed to ln(1/u_d) is strictly positive.
C4_SampleStrictlyPositive ==
    (pc = "particle" /\ u # NoVector) =>
        \A d \in Dims(n_dimensions) : u[d] > 0

\* C5: for every circuit output with components in [-1, 1] the coefficient
\* main() computes lies in [0, 1], and the swarm is built with it as beta.
C5_CoefficientInUnitInterval ==
    pc \notin {"get_state", "vqc_policy"} =>
        /\ \A q \in Qubits : quantum_outputs[q] \in -1 .. 1
        /\ adaptive_beta.den > 0
        /\ 0 <= adaptive_beta.num
        /\ adaptive_beta.num <= adaptive_beta.den
        /\ pc # "QPSO" => beta = adaptive_beta

\* C5 witness: all outputs are 1, the coefficient is 1 and a swarm was built
\* with it.
C5_Witness ==
    /\ pc = "update"
    /\ \A q \in Qubits : quantum_outputs[q] = 1
    /\ beta.num = beta.den

\* C6 (as claimed): with beta = 0 the position written for a particle is its
\* local attractor, whatever u and the sign are.
C6_BetaZeroPositionIsAttractor ==
    (pc = "particle" /\ Running /\ i > 0 /\ beta.num = 0) =>
        particles[i - 1] = p

\* C7: what update() returns is gbest, gbest_fit is the lowest fitness the
\* call evaluated, and the returned vector is the position evaluated with
\* that fitness.
C7_ReturnsBestEvaluatedPosition ==
    Returned =>
        /\ best_rescheduling = gbest
        /\ gbest_fit = LowestFit
        /\ \E j \in 1 .. Len(evals) :
              /\ evals[j].fit = gbest_fit
              /\ evals[j].position = best_rescheduling

\* C7 witness: update() returned the position of the second particle, which
\* was evaluated strictly better than the first, at another position.
C7_Witness ==
    /\ pc = "commit"
    /\ AllFinite
    /\ evals[2].fit < evals[1].fit
    /\ evals[2].position # evals[1].position
    /\ best_rescheduling = evals[2].position

\* C8 (as claimed): a swarm whose dimension differs from the action length
\* the environment expects is rejected at construction, and an action
\* shorter than that length is never applied.
C8_DimensionMismatchRejected ==
    n_dimensions # GenCount =>
        /\ pc \in {"get_state", "vqc_policy", "QPSO"}
        /\ env_gen = [g \in Gens |-> 0]

\* C9 (as claimed): a particle evaluated with a fitness below its personal
\* best fitness (+infinity at first) has that position as its personal best.
\* Stated for the calls whose positions all stayed finite.
C9_PersonalBestFollowsImprovement ==
    AllFinite =>
        \A j \in 1 .. Len(evals) :
            evals[j].fit < Inf => pbest[evals[j].particle] = evals[j].position

\* C10: the particles are evaluated one after another in index order, each
\* fitness is read on the dispatch left by every action applied so far, and
\* the commit lands on the dispatch the last particle left, before the
\* reward of the weight update is read.
C10_EvaluationsAccumulateInOrder ==
    /\ \A j \in 1 .. Len(evals) :
          /\ evals[j].particle = j - 1
          /\ evals[j].gen = Plus(DispatchAfter(j - 1), evals[j].position)
    /\ (pc = "particle" /\ Running) =>
          Len(evals) = i /\ env_gen = DispatchAfter(i)
    /\ (pc = "commit" /\ Running) =>
          Len(evals) = NParticles /\ env_gen = DispatchAfter(NParticles)
    /\ pc \in {"get_reward", "next_epoch"} =>
          env_gen = Plus(DispatchAfter(NParticles), best_rescheduling)

\* C10 witness: the weights were updated after a commit, and the second
\* particle's fitness was read on a dispatch that is not the baseline plus
\* its own action.
C10_Witness ==
    /\ pc = "next_epoch"
    /\ AllFinite
    /\ baseline # evals[1].gen
    /\ evals[2].gen # apply_action(baseline, evals[2].position)
    /\ env_gen # evals[NParticles].gen

====
